---- MODULE Spec2Model ----
(***************************************************************************)
(* mdbook-rfc: one process run of the command-line tool.                   *)
(*                                                                         *)
(* A run is either the default preprocessor mode (decode the handshake     *)
(* from standard input, check the caller's mdbook version, run the         *)
(* preprocessor, write the book to standard output) or one subcommand      *)
(* (init, install, add, build, populate, supports, clean, watch, new,      *)
(* serve).  The state is the position in main.rs, the values the handlers  *)
(* hold, the two output streams, the three project folders on disk, the    *)
(* delegated child processes started so far and the way the process ended. *)
(*                                                                         *)
(* Delegated child processes are black boxes: only their exit status is    *)
(* modelled, as call_command only reads that.                              *)
(***************************************************************************)
EXTENDS Integers, Sequences, FiniteSets, TLC

\* Version components range over 0..MaxVer.
MaxVer == 1
\* A book holds at most MaxLen items.
MaxLen == 2
\* book.toml declares at most MaxPrep preprocessors.
MaxPrep == 1

VARIABLES
    pc,              \* position in main.rs
    command,         \* Cli.command ("None": no subcommand, preprocessor mode)
    renderer,        \* the --renderer argument of supports
    MDBOOK_VERSION,  \* mdbook::MDBOOK_VERSION the plugin was built against
    stdinRead,       \* whether standard input was consumed
    ctx,             \* the decoded PreprocessorContext
    book,            \* the decoded Book
    processed_book,  \* the Book returned by Preprocessor::run
    steps,           \* the preprocessor steps executed so far, with outcome
    supported,       \* handle_supports' local
    stdout,          \* what was written to standard output
    stderr,          \* what was written to standard error
    result,          \* the Result process() returned to main
    errMsg,          \* the printable attached to the returned report
    term,            \* how the process ended
    exitCode,        \* the process exit code
    fs,              \* the three project folders on disk
    calls,           \* child processes started, in order
    rfcBookCfg,      \* the RFCBookConfig read by fetch_rfcbook_config
    cfgRead,         \* whether fetch_rfcbook_config returned Ok
    idx,             \* index of the folder loop of handle_install
    failure          \* the failures that happened in the run

vars == <<pc, command, renderer, MDBOOK_VERSION, stdinRead, ctx, book,
          processed_book, steps, supported, stdout, stderr, result, errMsg,
          term, exitCode, fs, calls, rfcBookCfg, cfgRead, idx, failure>>

preVars == <<stdinRead, ctx, book, processed_book, steps>>
subVars == <<fs, calls, rfcBookCfg, cfgRead, idx>>
argVars == <<command, renderer, MDBOOK_VERSION>>

----------------------------------------------------------------------------
(* Command line *)

Commands ==
    {"None", "Init", "Add", "Install", "Build", "Populate", "Supports",
     "Clean", "Watch", "New", "Serve"}

Renderers == {"rfc", "RFC", "Rfc", "html", "pdf", "rfc ", ""}

----------------------------------------------------------------------------
(* Versions: semver::Version and semver::VersionReq as main.rs uses them *)

\* A version string "a.b.c" or "a.b", with or without a pre-release tag.
VersionStrings ==
    [comps : UNION {[1..n -> 0..MaxVer] : n \in 2..3}, pre : BOOLEAN]

\* mdbook's own package version is a full version.
PluginVersionStrings ==
    [comps : [1..3 -> 0..1], pre : BOOLEAN]

NoVersionString == [comps |-> <<>>, pre |-> FALSE]

\* Version::parse: major.minor.patch are all required.
VersionParse(s) ==
    IF Len(s.comps) = 3
    THEN [ok |-> TRUE, major |-> s.comps[1], minor |-> s.comps[2],
          patch |-> s.comps[3], pre |-> s.pre]
    ELSE [ok |-> FALSE, major |-> 0, minor |-> 0, patch |-> 0, pre |-> FALSE]

\* VersionReq::parse of a bare version: one caret comparator; minor and
\* patch are optional (-1: absent).
VersionReqParse(s) ==
    IF Len(s.comps) \in 1..3
    THEN [ok |-> TRUE, major |-> s.comps[1],
          minor |-> IF Len(s.comps) >= 2 THEN s.comps[2] ELSE -1,
          patch |-> IF Len(s.comps) >= 3 THEN s.comps[3] ELSE -1,
          pre |-> s.pre]
    ELSE [ok |-> FALSE, major |-> 0, minor |-> -1, patch |-> -1, pre |-> FALSE]

\* Prerelease ordering: a release (no tag) is greater than any pre-release.
PreGeq(a, b) == (~a) \/ b

matches_caret(cmp, ver) ==
    IF ver.major # cmp.major THEN FALSE
    ELSE IF cmp.minor = -1 THEN TRUE
    ELSE IF cmp.patch = -1
         THEN (IF cmp.major > 0 THEN ver.minor >= cmp.minor
                                ELSE ver.minor = cmp.minor)
    ELSE IF cmp.major > 0 /\ ver.minor # cmp.minor THEN ver.minor > cmp.minor
    ELSE IF cmp.major > 0 /\ ver.patch # cmp.patch THEN ver.patch > cmp.patch
    ELSE IF cmp.major = 0 /\ cmp.minor > 0 /\ ver.minor # cmp.minor THEN FALSE
    ELSE IF cmp.major = 0 /\ cmp.minor > 0 /\ ver.patch # cmp.patch
         THEN ver.patch > cmp.patch
    ELSE IF cmp.major = 0 /\ cmp.minor = 0
            /\ (ver.minor # cmp.minor \/ ver.patch # cmp.patch) THEN FALSE
    ELSE PreGeq(ver.pre, cmp.pre)

pre_is_compatible(cmp, ver) ==
    /\ cmp.major = ver.major
    /\ cmp.minor = ver.minor
    /\ cmp.patch = ver.patch
    /\ cmp.pre

\* VersionReq::matches
matches(req, ver) ==
    /\ matches_caret(req, ver)
    /\ (ver.pre => pre_is_compatible(req, ver))

----------------------------------------------------------------------------
(* The handshake payload *)

\* BookItem: a chapter or a separator (sub-items left out).
Items ==
    {[tag |-> "Separator", name |-> ""],
     [tag |-> "Chapter", name |-> "Chapter 1"]}

Books == UNION {[1..n -> Items] : n \in 0..MaxLen}

\* config.preprocessor: at most one named block, with or without "blow-up".
PreprocessorBlocks ==
    {[name |-> "", blowUp |-> FALSE]}
    \cup [name : {"rfc", "rfc-preprocessor"}, blowUp : BOOLEAN]

\* The Context element of the payload; mdbook_version may be missing.
ContextJson ==
    [hasVersion : {TRUE}, mdbook_version : VersionStrings,
     preprocessor : PreprocessorBlocks]
    \cup [hasVersion : {FALSE}, mdbook_version : {NoVersionString},
          preprocessor : {[name |-> "", blowUp |-> FALSE]}]

\* The payload: a JSON array of `elems` elements.
Payloads ==
    [elems : {2}, context : ContextJson, book : Books]
    \cup [elems : {1, 3}, context : ContextJson, book : {<<>>}]

NoCtx == [mdbook_version |-> NoVersionString,
          preprocessor |-> [name |-> "", blowUp |-> FALSE]]

\* CmdPreprocessor::parse_input: a two-element array (Context, Book).
parse_input(p) ==
    IF p.elems = 2 /\ p.context.hasVersion
    THEN [ok |-> TRUE,
          ctx |-> [mdbook_version |-> p.context.mdbook_version,
                   preprocessor |-> p.context.preprocessor],
          book |-> p.book]
    ELSE [ok |-> FALSE, ctx |-> NoCtx, book |-> <<>>]

\* serde_json::to_writer of a Book: the items in order, each under its
\* variant tag, inside the "sections" array.
ItemJson(it) == [kind |-> "json", variant |-> it.tag, text |-> it.name]

Serialize(b) ==
    <<[kind |-> "json", variant |-> "sections[", text |-> ""]>>
    \o [i \in 1..Len(b) |-> ItemJson(b[i])]
    \o <<[kind |-> "json", variant |-> "]", text |-> ""]>>

----------------------------------------------------------------------------
(* RFCPreprocessor *)

name == "rfc-preprocessor"

\* A transform that drops the separators of the book.
run_dropping(c, b) ==
    [ok |-> TRUE, book |-> SelectSeq(b, LAMBDA it : it.tag # "Separator")]

\* RFCPreprocessor::run: looks the "blow-up" key up and returns the book.
run(c, b) ==
    IF c.preprocessor.name = name /\ c.preprocessor.blowUp
    THEN [ok |-> TRUE, book |-> b]
    ELSE [ok |-> TRUE, book |-> b]

\* An allowlist lookup that ignores case.
supports_renderer_nocase(r) == r \in {"rfc", "RFC", "Rfc"}

supports_renderer(r) == r \in {"rfc"}

----------------------------------------------------------------------------
(* Output *)

Progress(t) == [kind |-> "progress", variant |-> "", text |-> t]
Warning == [kind |-> "warning", variant |-> "", text |-> name]
ErrorLog(t) == [kind |-> "error", variant |-> "", text |-> t]
PanicMsg(t) == [kind |-> "panic", variant |-> "", text |-> t]

\* The warning printed with println!.
WarningStreamStdout == "stdout"

\* eprintln! writes to standard error.
WarningStream == "stderr"

Return(r, m) ==
    /\ pc' = "main_match"
    /\ result' = r
    /\ errMsg' = m
    /\ failure' = IF r = "Err" THEN Append(failure, m) ELSE failure
    /\ UNCHANGED <<term, exitCode>>

Goto(p) ==
    /\ pc' = p
    /\ UNCHANGED <<result, errMsg, failure, term, exitCode>>

Continue(p) == IF p = "main_match" THEN Return("Ok", "") ELSE Goto(p)

\* A panic (a failed unwrap) unwinds out of main: exit code 101.
PanicExit(m) ==
    /\ pc' = "done"
    /\ term' = "panicked"
    /\ exitCode' = 101
    /\ failure' = Append(failure, m)
    /\ UNCHANGED <<result, errMsg>>

----------------------------------------------------------------------------
(* Initial state: the arguments are parsed, process() is about to run *)

FolderNames == {"template", "text", "public"}

Init ==
    /\ pc = "process"
    /\ command \in Commands
    /\ renderer \in (IF command = "Supports" THEN Renderers ELSE {""})
    /\ MDBOOK_VERSION \in
         (IF command = "None" THEN PluginVersionStrings
          ELSE {[comps |-> <<0, 1, 0>>, pre |-> FALSE]})
    /\ stdinRead = FALSE
    /\ ctx = NoCtx
    /\ book = <<>>
    /\ processed_book = <<>>
    /\ steps = <<>>
    /\ supported = FALSE
    /\ stdout = <<>>
    /\ stderr = <<>>
    /\ result = "pending"
    /\ errMsg = ""
    /\ term = "running"
    /\ exitCode = -1
    /\ fs \in (IF command \in {"Init", "Install", "Clean"}
               THEN [FolderNames -> {"absent", "dir", "file"}]
               ELSE {[f \in FolderNames |-> "absent"]})
    /\ calls = <<>>
    /\ rfcBookCfg = [textFolder |-> "", vendorFolder |-> "",
                     templateFolder |-> "", preprocessors |-> <<>>,
                     packages |-> <<>>]
    /\ cfgRead = FALSE
    /\ idx = 0
    /\ failure = <<>>

----------------------------------------------------------------------------
(* process(): dispatch *)

HandlerOf(cmd) ==
    CASE cmd = "None" -> "handle_preprocessing"
      [] cmd = "Init" -> "handle_init"
      [] cmd = "Install" -> "handle_install"
      [] cmd = "Add" -> "handle_add"
      [] cmd = "Build" -> "handle_build"
      [] cmd = "Populate" -> "handle_populate"
      [] cmd = "Supports" -> "handle_supports"
      [] cmd = "Clean" -> "handle_clean"
      [] cmd = "Watch" -> "handle_watch"
      [] cmd = "New" -> "handle_new"
      [] cmd = "Serve" -> "handle_serve"

\* current_dir().unwrap() is evaluated whether or not --folder is given.
Process ==
    /\ pc = "process"
    /\ \E cwdOk \in BOOLEAN :
         IF cwdOk
         THEN /\ Goto(HandlerOf(command))
              /\ UNCHANGED stderr
         ELSE /\ PanicExit("current_dir")
              /\ stderr' = Append(stderr, PanicMsg("current_dir"))
    /\ UNCHANGED <<argVars, preVars, subVars, supported, stdout>>

----------------------------------------------------------------------------
(* supports *)

\* The boolean taken as the exit code.
SupportsExitCodeAsInt(s) == IF s THEN 1 ELSE 0

SupportsExitCode(s) == IF s THEN 0 ELSE 1

HandleSupports ==
    /\ pc = "handle_supports"
    /\ supported' = supports_renderer(renderer)
    /\ pc' = "done"
    /\ term' = "exited"
    /\ exitCode' = SupportsExitCode(supported')
    /\ UNCHANGED <<argVars, preVars, subVars, stdout, stderr, result, errMsg,
                   failure>>

----------------------------------------------------------------------------
(* Preprocessor mode: handle_preprocessing *)

\* A run that goes from decoding straight to the transform.
AfterParseSkipsCheck == "run"

AfterParse == "check_version"
AfterVersion == "run"
AfterRun == "write"

ParseInput ==
    /\ pc = "handle_preprocessing"
    /\ \E p \in Payloads :
         LET d == parse_input(p) IN
           /\ stdinRead' = TRUE
           /\ IF d.ok
              THEN /\ ctx' = d.ctx
                   /\ book' = d.book
                   /\ steps' = Append(steps, "decode:ok")
                   /\ Goto(AfterParse)
              ELSE /\ steps' = Append(steps, "decode:err")
                   /\ Return("Err", "Could not parse command input.")
                   /\ UNCHANGED <<ctx, book>>
    /\ UNCHANGED <<argVars, subVars, processed_book, supported, stdout,
                   stderr>>

\* A check that compares the major versions only.
NeedsWarningMajorOnly(req, ver) == ver.major # req.major

\* The warning is needed when the requirement does not match.
NeedsWarning(req, ver) == ~matches(req, ver)

Emit(stream, out, msg) == IF stream = WarningStream THEN Append(out, msg) ELSE out

CheckVersion ==
    /\ pc = "check_version"
    /\ LET book_version == VersionParse(ctx.mdbook_version)
           version_req == VersionReqParse(MDBOOK_VERSION)
       IN  IF ~book_version.ok
           THEN /\ steps' = Append(steps, "version:err")
                /\ Return("Err", "Could not parse book version.")
                /\ UNCHANGED <<stdout, stderr>>
           ELSE IF ~version_req.ok
           THEN /\ steps' = Append(steps, "version:err")
                /\ Return("Err", "Could not parse mdbook version.")
                /\ UNCHANGED <<stdout, stderr>>
           ELSE /\ steps' = Append(steps, "version:ok")
                /\ IF NeedsWarning(version_req, book_version)
                   THEN /\ stderr' = Emit("stderr", stderr, Warning)
                        /\ stdout' = Emit("stdout", stdout, Warning)
                   ELSE UNCHANGED <<stdout, stderr>>
                /\ Goto(AfterVersion)
    /\ UNCHANGED <<argVars, subVars, stdinRead, ctx, book, processed_book,
                   supported>>

RunPreprocessor ==
    /\ pc = "run"
    /\ LET r == run(ctx, book) IN
         IF r.ok
         THEN /\ processed_book' = r.book
              /\ steps' = Append(steps, "transform:ok")
              /\ Goto(AfterRun)
         ELSE /\ steps' = Append(steps, "transform:err")
              /\ Return("Err", "Could not preprocess book.")
              /\ UNCHANGED processed_book
    /\ UNCHANGED <<argVars, subVars, stdinRead, ctx, book, supported, stdout,
                   stderr>>

\* serde_json::to_writer streams the book to io::stdout(); a failing write
\* leaves what was written before it.
WriteBook ==
    /\ pc = "write"
    /\ LET json == Serialize(processed_book) IN
         \E written \in 0..Len(json) :
           /\ stdout' = stdout \o SubSeq(json, 1, written)
           /\ IF written = Len(json)
              THEN /\ steps' = Append(steps, "write:ok")
                   /\ Return("Ok", "")
              ELSE /\ steps' = Append(steps, "write:err")
                   /\ Return("Err", "Could not preprocess book.")
    /\ UNCHANGED <<argVars, subVars, stdinRead, ctx, book, processed_book,
                   supported, stderr>>

----------------------------------------------------------------------------
(* The project configuration: book.toml *)

PrepNames == {"rfc", "toc"}

\* One entry of the [preprocessor] table: its name and its "command" key,
\* which is absent, a string, or a value of another type.
PrepEntries ==
    [name : PrepNames, cmdKind : {"nokey", "other"}, command : {""}]
    \cup [name : PrepNames, cmdKind : {"string"}, command : {"mdbook-rfc"}]

\* book.toml on disk: unreadable (missing or not TOML), or with the
\* "preprocessor" key absent, not a table, or a table.
TomlFiles ==
    [readable : {FALSE}, prepKind : {"absent"}, table : {<<>>}]
    \cup [readable : {TRUE}, prepKind : {"absent", "notTable"}, table : {<<>>}]
    \cup [readable : {TRUE}, prepKind : {"table"},
          table : UNION {[1..n -> PrepEntries] : n \in 0..MaxPrep}]

\* RFCBookConfig::default
RFCBookConfigDefault ==
    [textFolder |-> "text", vendorFolder |-> "public",
     templateFolder |-> "template", preprocessors |-> <<>>,
     packages |-> <<>>]

\* MDBookConfig::from_disk(book.toml)
fetch_mdbook_config(toml) ==
    IF toml.readable THEN [ok |-> TRUE, cfg |-> toml]
    ELSE [ok |-> FALSE, cfg |-> toml]

\* One round of the loop of fetch_rfcbook_config.
PackageOf(e) == IF e.cmdKind = "string" THEN e.command ELSE e.name

fetch_rfcbook_config(mdBookCfg) ==
    CASE mdBookCfg.prepKind = "absent" ->
           [status |-> "ok", printed |-> TRUE, cfg |-> RFCBookConfigDefault]
      [] mdBookCfg.prepKind = "notTable" ->
           [status |-> "err", printed |-> FALSE, cfg |-> RFCBookConfigDefault]
      [] mdBookCfg.prepKind = "table" ->
           IF \E i \in 1..Len(mdBookCfg.table) :
                mdBookCfg.table[i].cmdKind = "other"
           THEN [status |-> "panic", printed |-> FALSE,
                 cfg |-> RFCBookConfigDefault]
           ELSE [status |-> "ok", printed |-> FALSE,
                 cfg |-> [RFCBookConfigDefault EXCEPT
                            !.preprocessors =
                               [i \in 1..Len(mdBookCfg.table) |->
                                  mdBookCfg.table[i].name],
                            !.packages =
                               [i \in 1..Len(mdBookCfg.table) |->
                                  PackageOf(mdBookCfg.table[i])]]]

\* let mdBookCfg = fetch_mdbook_config(currentFolder)?;
\* let rfcBookCfg = fetch_rfcbook_config(mdBookCfg)?;
FetchConfig(okPc) ==
    \E toml \in TomlFiles :
      LET m == fetch_mdbook_config(toml)
          r == fetch_rfcbook_config(m.cfg)
      IN  IF ~m.ok
          THEN /\ Return("Err", "Could not fetch config.")
               /\ UNCHANGED <<rfcBookCfg, cfgRead, stdout, stderr>>
          ELSE IF r.status = "panic"
          THEN /\ PanicExit("command.as_str")
               /\ stderr' = Append(stderr, PanicMsg("command.as_str"))
               /\ UNCHANGED <<rfcBookCfg, cfgRead, stdout>>
          ELSE IF r.status = "err"
          THEN /\ Return("Err", "Could not parse array of preprocessors.")
               /\ UNCHANGED <<rfcBookCfg, cfgRead, stdout, stderr>>
          ELSE /\ rfcBookCfg' = r.cfg
               /\ cfgRead' = TRUE
               /\ stdout' =
                    IF r.printed
                    THEN Append(stdout,
                           Progress("Could not find preprocessors to install."))
                    ELSE stdout
               /\ UNCHANGED stderr
               /\ Continue(okPc)

----------------------------------------------------------------------------
(* Delegated child processes: call_command *)

\* Command::status(): the child could not be started, or it ran and exited.
ChildOutcomes == {"success", "nonzero", "nostart"}

\* call_command returns Ok only for a started child that exited with 0.
CommandOk(st) == st = "success"

call_command(program, args, error_msg, okPc) ==
    \E st \in ChildOutcomes :
      /\ calls' = Append(calls, [program |-> program, args |-> args,
                                 status |-> st])
      /\ IF CommandOk(st) THEN Continue(okPc) ELSE Return("Err", error_msg)

\* A handler that prints its progress line and delegates to one command.
Delegate(at, line, program, args, error_msg, okPc) ==
    /\ pc = at
    /\ stdout' = Append(stdout, Progress(line))
    /\ call_command(program, args, error_msg, okPc)
    /\ UNCHANGED <<argVars, preVars, supported, stderr, fs, rfcBookCfg,
                   cfgRead, idx>>

HandleBuild ==
    Delegate("handle_build", "Building book... ", "mdbook", <<"build">>,
             "Could not build book.", "main_match")

HandleWatch ==
    Delegate("handle_watch", "Initializing book... ", "mdbook", <<"watch">>,
             "Could not initialize book.", "main_match")

HandleServe ==
    Delegate("handle_serve", "Serving book...", "mdbook", <<"serve">>,
             "Could not initialize book.", "main_match")

\* handle_add spawns `cargo build` itself, the same way call_command does.
HandleAdd ==
    Delegate("handle_add", "Building book... ", "cargo", <<"build">>,
             "Could not initialize book.", "main_match")

HandlePopulate ==
    /\ pc = "handle_populate"
    /\ Return("Ok", "")
    /\ UNCHANGED <<argVars, preVars, subVars, supported, stdout, stderr>>

\* handle_new reads the configuration and walks the template folder
\* without doing anything with what it finds.
HandleNew ==
    /\ pc = "handle_new"
    /\ FetchConfig("main_match")
    /\ UNCHANGED <<argVars, preVars, supported, fs, calls, idx>>

----------------------------------------------------------------------------
(* init and install *)

AfterInit == "handle_install"

HandleInit ==
    Delegate("handle_init", "Initializing book... ", "mdbook", <<"init">>,
             "Could not initialize book.", AfterInit)

InstallFetchConfig ==
    /\ pc = "handle_install"
    /\ FetchConfig("install_cargo")
    /\ UNCHANGED <<argVars, preVars, supported, fs, calls, idx>>

InstallCargo ==
    /\ pc = "install_cargo"
    /\ stdout' = Append(stdout, Progress("Installing preprocessor packages"))
    /\ call_command("cargo", <<"install", "mdbook">> \o rfcBookCfg.packages,
                    "Installing preprocessor packages failed.",
                    "install_folders")
    /\ idx' = 1
    /\ UNCHANGED <<argVars, preVars, supported, stderr, fs, rfcBookCfg,
                   cfgRead>>

\* The folders handle_install visits, in this order.
InstallFolders(cfg) == <<cfg.templateFolder, cfg.textFolder, cfg.vendorFolder>>

\* Path::exists: true for anything at the path, a directory or not.
exists(disk, folder) == disk[folder] # "absent"

\* One round of the folder loop.
InstallFolder ==
    /\ pc = "install_folders"
    /\ LET folders == InstallFolders(rfcBookCfg)
           folder == folders[idx]
           more == idx < Len(folders)
       IN  IF exists(fs, folder)
           THEN /\ stdout' = stdout
                      \o <<Progress("Creating folder"),
                           Progress("exists, no action needed")>>
                /\ UNCHANGED fs
                /\ idx' = idx + 1
                /\ IF more THEN Goto("install_folders") ELSE Return("Ok", "")
           ELSE /\ stdout' = Append(stdout, Progress("Creating folder"))
                /\ \E created \in BOOLEAN :
                     IF created
                     THEN /\ fs' = [fs EXCEPT ![folder] = "dir"]
                          /\ idx' = idx + 1
                          /\ IF more THEN Goto("install_folders")
                             ELSE Return("Ok", "")
                     ELSE /\ Return("Err", "Couldn't create folder")
                          /\ UNCHANGED <<fs, idx>>
    /\ UNCHANGED <<argVars, preVars, supported, stderr, calls, rfcBookCfg,
                   cfgRead>>

----------------------------------------------------------------------------
(* clean *)

HandleClean ==
    Delegate("handle_clean", "cleaning book... ", "mdbook", <<"clean">>,
             "Could not initialize book.", "clean_config")

CleanFetchConfig ==
    /\ pc = "clean_config"
    /\ FetchConfig("clean_remove")
    /\ UNCHANGED <<argVars, preVars, supported, fs, calls, idx>>

\* A clean that removes the text folder.
CleanTargetText(cfg) == cfg.textFolder

\* The folder handle_clean removes.
CleanTarget(cfg) == cfg.vendorFolder

\* remove_dir_all(..).unwrap(): removing fails when the path is no
\* directory, and may fail when it is one.
CleanRemove ==
    /\ pc = "clean_remove"
    /\ LET target == CleanTarget(rfcBookCfg) IN
         \E removed \in BOOLEAN :
           IF removed /\ fs[target] = "dir"
           THEN /\ fs' = [fs EXCEPT ![target] = "absent"]
                /\ Return("Ok", "")
                /\ UNCHANGED stderr
           ELSE /\ PanicExit("remove_dir_all")
                /\ stderr' = Append(stderr, PanicMsg("remove_dir_all"))
                /\ UNCHANGED fs
    /\ UNCHANGED <<argVars, preVars, supported, stdout, calls, rfcBookCfg,
                   cfgRead, idx>>

----------------------------------------------------------------------------
(* main: the match on process()'s result *)

\* main returns normally in both arms.
MainExitCode(r) == 0

MainMatch ==
    /\ pc = "main_match"
    /\ stderr' = IF result = "Ok" THEN stderr
                 ELSE stderr
                      \o <<ErrorLog("The process could not be completed. Quiting."),
                           ErrorLog(errMsg)>>
    /\ pc' = "done"
    /\ term' = "returned"
    /\ exitCode' = MainExitCode(result)
    /\ UNCHANGED <<argVars, preVars, subVars, supported, stdout, result,
                   errMsg, failure>>

Next ==
    \/ Process
    \/ HandleSupports
    \/ ParseInput
    \/ CheckVersion
    \/ RunPreprocessor
    \/ WriteBook
    \/ HandleInit
    \/ InstallFetchConfig
    \/ InstallCargo
    \/ InstallFolder
    \/ HandleAdd
    \/ HandleBuild
    \/ HandlePopulate
    \/ HandleClean
    \/ CleanFetchConfig
    \/ CleanRemove
    \/ HandleWatch
    \/ HandleNew
    \/ HandleServe
    \/ MainMatch

Spec == Init /\ [][Next]_vars

----------------------------------------------------------------------------
(* Properties *)

IsPrefix(s, t) == Len(s) <= Len(t) /\ SubSeq(t, 1, Len(s)) = s

Count(out, k) == Cardinality({i \in 1..Len(out) : out[i].kind = k})

Done == pc = "done"

\* The stages of handle_preprocessing, in the order of the pipeline.
Stages == <<"decode", "version", "transform", "write">>

StageOk(i) == steps[i] = Stages[i] \o ":ok"
StageErr(i) == steps[i] = Stages[i] \o ":err"

Transformed == Len(steps) >= 3 /\ (StageOk(3) \/ StageErr(3))

Triggering(c) == c.preprocessor.name = name /\ c.preprocessor.blowUp

\* C1: once the transform has run on a decoded book under a context without
\* the "blow-up" key in the plugin's configuration block, it has succeeded
\* and the book it returned equals the decoded book, item for item.
C1_RunIsIdentity ==
    (Transformed /\ ~Triggering(ctx)) =>
        (StageOk(3) /\ processed_book = book)

C1_Witness ==
    /\ Transformed
    /\ StageOk(3)
    /\ ~Triggering(ctx)
    /\ ctx.preprocessor.name = "rfc"
    /\ Len(book) >= 2
    /\ book[1].tag = "Chapter"
    /\ book[2].tag = "Separator"
    /\ processed_book = book

\* C2: after the supports handler has asked the preprocessor, `supported`
\* is true exactly when the renderer argument is the string "rfc".
C2_SupportsExactlyRfc ==
    (command = "Supports" /\ term = "exited") =>
        (supported <=> renderer = "rfc")

C2_Witness ==
    /\ command = "Supports"
    /\ term = "exited"
    /\ renderer = "RFC"
    /\ ~supported

\* C3: a run dispatched to supports can always take the handler's step, and
\* that step ends the process with exit code 0 for an allowlisted renderer
\* and 1 for any other, with standard input unread, no preprocessor step
\* run and nothing written to standard output.
C3_SupportsExits ==
    /\ [](pc = "handle_supports" => ENABLED HandleSupports)
    /\ [][pc = "handle_supports" =>
            /\ pc' = "done"
            /\ term' = "exited"
            /\ exitCode' = (IF renderer \in {"rfc"} THEN 0 ELSE 1)
            /\ ~stdinRead'
            /\ steps' = <<>>
            /\ stdout' = <<>>
            /\ calls' = <<>>]_vars

C3_Witness ==
    /\ command = "Supports"
    /\ renderer = "pdf"
    /\ term = "exited"
    /\ exitCode = 1
    /\ ~stdinRead
    /\ stdout = <<>>

VersionChecked == Len(steps) >= 2 /\ StageOk(1) /\ StageOk(2)

Compatible ==
    matches(VersionReqParse(MDBOOK_VERSION), VersionParse(ctx.mdbook_version))

Warnings == Count(stderr, "warning") + Count(stdout, "warning")

\* C4 as stated: after a decoded input and a parsed version, no warning for
\* a compatible caller, exactly one otherwise, and the finished run has
\* succeeded.
C4_MismatchOnlyWarns_Original ==
    (VersionChecked /\ Done) =>
        /\ Warnings = (IF Compatible THEN 0 ELSE 1)
        /\ StageOk(3)
        /\ result = "Ok"

\* C4 amended: after a decoded input and a parsed version, no warning for a
\* compatible caller, exactly one otherwise; in both cases the run goes on
\* to the transform and the writer and returns to main, successfully unless
\* the write to standard output fails.
C4_MismatchOnlyWarns ==
    VersionChecked =>
        /\ Warnings = (IF Compatible THEN 0 ELSE 1)
        /\ pc \in {"run", "write", "main_match", "done"}
        /\ (pc \in {"main_match", "done"} =>
              /\ Len(steps) = 4
              /\ StageOk(3)
              /\ (result = "Ok" <=> StageOk(4))
              /\ (result = "Err" <=> StageErr(4)))
        /\ (Done => term = "returned")

C4_Witness ==
    /\ Done
    /\ VersionChecked
    /\ ~Compatible
    /\ Warnings = 1
    /\ StageOk(4)
    /\ result = "Ok"

\* C5: the preprocessor steps run in the order decode, version check,
\* transform, write, each at most once and each only after the one before
\* it succeeded; standard output is written only by the write step, and a
\* run that failed before it has returned an error with standard output
\* empty.
C5_WriteComesLast ==
    command = "None" =>
        /\ Len(steps) <= Len(Stages)
        /\ \A i \in 1..Len(steps) :
             /\ StageOk(i) \/ StageErr(i)
             /\ (i < Len(steps) => StageOk(i))
        /\ (stdout # <<>> => (Len(steps) = 4 /\ StageOk(3)))
        /\ ((steps # <<>> /\ StageErr(Len(steps))) =>
              (pc \in {"main_match", "done"} /\ result = "Err"))
        /\ ((steps # <<>> /\ Len(steps) < 4 /\ StageErr(Len(steps))) =>
              stdout = <<>>)
        /\ (pc \in {"main_match", "done"} /\ result = "Ok" => Len(steps) = 4)

C5_Witness ==
    /\ command = "None"
    /\ Done
    /\ steps = <<"decode:err">>
    /\ stdinRead
    /\ result = "Err"
    /\ stdout = <<>>

\* C6: a run of a subcommand other than supports, or of the preprocessor,
\* that returned to main ends with exit code 0 exactly when process()
\* returned Ok, and with a non-zero code when it returned an error.
C6_FailureExitsNonZero ==
    (Done /\ term = "returned") =>
        /\ (result = "Ok" => exitCode = 0)
        /\ (result = "Err" => exitCode # 0)

\* C7 as stated: in a preprocessor run standard output is empty or holds
\* exactly the serialized book, and warnings and error reports are on
\* standard error.
C7_StdoutOnlyBook_Original ==
    command = "None" =>
        /\ (stdout = <<>> \/ stdout = Serialize(processed_book))
        /\ Count(stdout, "warning") = 0
        /\ Count(stdout, "error") = 0

\* C7 amended: in a preprocessor run standard output holds nothing but the
\* serialized book: it is empty, or the whole book once the write succeeded,
\* or a leading part of it when the write failed part-way; the warning and
\* the error reports are on standard error.
C7_StdoutOnlyBook ==
    command = "None" =>
        /\ IsPrefix(stdout, Serialize(processed_book))
        /\ \A i \in 1..Len(stdout) : stdout[i].kind = "json"
        /\ ((Len(steps) = 4 /\ StageOk(4)) =>
              stdout = Serialize(processed_book))
        /\ (Len(steps) < 4 => stdout = <<>>)
        /\ ((VersionChecked /\ ~Compatible) => Count(stderr, "warning") = 1)
        /\ ((Done /\ result = "Err") => Count(stderr, "error") = 2)

C7_Witness ==
    /\ command = "None"
    /\ Done
    /\ VersionChecked
    /\ ~Compatible
    /\ Count(stderr, "warning") = 1
    /\ Len(book) = 2
    /\ stdout = Serialize(book)

\* C8: a run in which something failed inside a subcommand's handler ends by
\* returning to main with an error, and main has logged the generic message
\* followed by the chain.
C8_FailuresReachMain ==
    (Done /\ failure # <<>> /\ failure[1] # "current_dir") =>
        /\ term = "returned"
        /\ result = "Err"
        /\ Len(stderr) >= 2
        /\ stderr[Len(stderr) - 1] =
             ErrorLog("The process could not be completed. Quiting.")
        /\ stderr[Len(stderr)] = ErrorLog(errMsg)

\* C9: after a successful install (alone or as the second half of init)
\* the template, text and vendor folders all exist as folders.
C9_InstallLeavesFolders ==
    (command \in {"Install", "Init"} /\ Done /\ result = "Ok") =>
        \A f \in FolderNames : fs[f] = "dir"

MdbookClean == [program |-> "mdbook", args |-> <<"clean">>, status |-> "success"]

\* C10: no delegated command is started twice in a run; in a clean run the
\* text and template folders never change, the vendor folder changes only
\* by being removed, after `mdbook clean` exited successfully and the
\* configuration was read, and a successful clean leaves it removed.
C10_CleanRemovesOnlyVendor ==
    /\ [](\A i, j \in 1..Len(calls) :
            (calls[i].program = calls[j].program
             /\ calls[i].args = calls[j].args) => i = j)
    /\ []((command = "Clean" /\ Done /\ result = "Ok") =>
            (fs["public"] = "absent" /\ calls = <<MdbookClean>>))
    /\ [][command = "Clean" =>
            /\ fs'["text"] = fs["text"]
            /\ fs'["template"] = fs["template"]
            /\ (fs' # fs =>
                  /\ calls = <<MdbookClean>>
                  /\ cfgRead
                  /\ fs["public"] = "dir"
                  /\ fs'["public"] = "absent")]_vars

C10_Witness ==
    /\ command = "Clean"
    /\ Done
    /\ result = "Ok"
    /\ fs["public"] = "absent"
    /\ fs["text"] = "dir"
    /\ fs["template"] = "file"
    /\ calls = <<MdbookClean>>

====
